---- MODULE Spec2Model ----
(***************************************************************************)
(* A model of run_fm3d.py: the split of the source catalog over per-core   *)
(* subfolders (split_sources), the fork-join run of the solver over the    *)
(* subfolders (parallel/execute/fmtomo) and the merges of the per-core     *)
(* result files (combine_arrivals, combine_ray_sep_data, combine_arrtimes).*)
(***************************************************************************)
EXTENDS Integers, Sequences, FiniteSets, TLC

(***************************************************************************)
(* Bounds of the model.                                                    *)
(***************************************************************************)
\* sources in the catalog, and requested cores, when the split is checked alone
MaxSources == 5
MaxCores == 6
\* sources of the catalogs whose receivers are enumerated freely
MaxRcvSources == 3
\* receivers of a catalog in which every receiver names one source
MaxReceivers == 3
\* receivers of a catalog written by moddata (a receiver names several sources)
MaxModRcv == 1
\* sources and requested cores of a whole run (split, pool, merge)
MaxRunSources == 3
MaxRunCores == 4
\* result files joined by one merge, and the local ids in a result file
MaxFiles == 2
MaxLocalId == 2
\* rows of all the arrivals.dat files of one merge together
MaxArrRows == 4
\* header lines of all the ray separated files of one merge together
MaxHeaders == 3
\* lines below the 4-line header of all the arrtimes.dat files of one merge together
MaxArtLines == 4
\* lines below the count line of a source catalog parsed line by line
MaxSrcLines == 4

VARIABLES
    pc,            \* where __main__ stands
    err,           \* the exception that ended the run ("" when none)
    requested,     \* the number of cores asked for on the command line
    cores,         \* the variable `cores` (clamped by split_sources)
    srcIn,         \* sources.in, as its sequence of source blocks
    refIn,         \* sourcesref.in, as its sequence of source blocks
    rcvIn,         \* receivers.in, as its sequence of receiver blocks
    sources,       \* split_sources: the list of (id, block) pairs
    sources_ref,
    receiver_dict, \* split_sources: source id -> receiver blocks
    moddata,
    distrib_s,     \* np.array_split(sources,cores)
    distrib_sref,
    wds,           \* the subfolders written so far (their indices)
    parts,         \* subfolder index -> the three files written into it
    task,          \* pool: subfolder index -> "running" | "returned" | "raised"
    outcome,       \* what the solver left in the subfolder
    completed,     \* the subfolders in the order in which their workers ended
    saved,         \* the optional result files the solver is set up to write
    merge,         \* the merge operations called so far
    nread,         \* how many files the merge in progress has read
    readLog,       \* every read of a result file, in order: <<output, subfolder>>
    written,       \* the merges ended: <<output, "joined" | "skipped", subfolders joined>>
    arr,           \* combine_arrivals: its arguments, locals and output
    rsd,           \* combine_ray_sep_data: its arguments, locals and output
    att,           \* combine_arrtimes: its arguments, locals and output
    lsl            \* load_sources_list: the file read, its locals and what it returns

splitVars == <<requested, cores, srcIn, refIn, rcvIn, sources, sources_ref,
               receiver_dict, moddata, distrib_s, distrib_sref, wds, parts>>
poolVars == <<task, outcome, completed, saved>>
mergeVars == <<merge, nread, readLog, written>>
runVars == <<pc, err, splitVars, poolVars, mergeVars>>
vars == <<runVars, arr, rsd, att, lsl>>

(***************************************************************************)
(* Helpers on sequences.                                                   *)
(***************************************************************************)
Range(s) == {s[j] : j \in DOMAIN s}

RECURSIVE SeqSum(_)
SeqSum(s) == IF s = <<>> THEN 0 ELSE Head(s) + SeqSum(Tail(s))

RECURSIVE Flatten(_)
Flatten(ss) == IF ss = <<>> THEN <<>> ELSE Head(ss) \o Flatten(Tail(ss))

\* the indices from j on, ascending, at which the sequence of booleans holds TRUE
RECURSIVE Indices(_, _)
Indices(keep, j) ==
    IF j > Len(keep) THEN <<>>
    ELSE (IF keep[j] THEN <<j>> ELSE <<>>) \o Indices(keep, j + 1)

\* sequences over S of length lo..hi
SeqsOf(S, lo, hi) == UNION {[1..n -> S] : n \in lo..hi}

NoRepeat(s) == \A a, b \in DOMAIN s : a # b => s[a] # s[b]

(***************************************************************************)
(* The catalogs.  A source block is opaque text; a receiver block is its   *)
(* four lines: location, count, source ids, path specs.                    *)
(***************************************************************************)
SrcBlock(k) == [file |-> "sources.in", n |-> k]
RefBlock(k) == [file |-> "sourcesref.in", n |-> k]

PathOf(r, j) == 10 * r + j

RcvBlock(r, ids) ==
    [loc |-> r, n |-> Len(ids), ids |-> ids,
     paths |-> [j \in 1..Len(ids) |-> PathOf(r, j)]]

Catalog(idLists) == [r \in 1..Len(idLists) |-> RcvBlock(r, idLists[r])]

\* load_sources_list: the blocks of the file, numbered from 1 in file order
load_sources_list(file) == [k \in 1..Len(file) |-> <<k, file[k]>>]

\* receiver_dict[source_id].append(r), or receiver_dict[source_id] = [r]
DictAppend(d, k, r) ==
    IF k \in DOMAIN d THEN [d EXCEPT ![k] = Append(@, r)] ELSE d @@ (k :> <<r>>)

RECURSIVE DictAppendAll(_, _, _)
DictAppendAll(d, ids, r) ==
    IF ids = <<>> THEN d ELSE DictAppendAll(DictAppend(d, Head(ids), r), Tail(ids), r)

RECURSIVE LoadDict(_, _)
LoadDict(d, rs) ==
    IF rs = <<>> THEN d ELSE LoadDict(DictAppendAll(d, Head(rs).ids, Head(rs)), Tail(rs))

\* load_receiver_dict: the dictionary, and whether a receiver names several sources
load_receiver_dict(file) ==
    [dict |-> LoadDict(<<>>, file),
     moddata |-> \E r \in DOMAIN file : Len(file[r].ids) # 1]

\* modify_receiver_source: the third line of the block is replaced
modify_receiver_source(receiver_data, new_source) ==
    [receiver_data EXCEPT !.ids = <<new_source>>]

\* reset_moddata_rcv: one block
ResetBlockFirstKept(block, src_ids) ==
    LET active == Indices([i \in DOMAIN block.ids |-> block.ids[i] \in Range(src_ids)], 1)
    IN  [block EXCEPT !.n = Len(active),
                      !.ids = [a \in 1..Len(active) |-> a],
                      !.paths = [a \in 1..Len(active) |-> block.paths[a]]]

ResetBlock(block, src_ids) ==
    LET active == Indices([i \in DOMAIN block.ids |-> block.ids[i] \in Range(src_ids)], 1)
    IN  [block EXCEPT !.n = Len(active),
                      !.ids = [a \in 1..Len(active) |-> a],
                      !.paths = [a \in 1..Len(active) |-> block.paths[active[a]]]]

reset_moddata_rcv(receiver_blocks, src_ids) ==
    [b \in 1..Len(receiver_blocks) |-> ResetBlock(receiver_blocks[b], src_ids)]

(***************************************************************************)
(* np.array_split(ary,n): l % n sections of l \div n + 1 items, then the   *)
(* rest of l \div n items, cut at the running sums of the sizes.           *)
(***************************************************************************)
SectionSizeEvenLast(l, n, k) == IF k = n THEN l - (n - 1) * (l \div n) ELSE l \div n

SectionSize(l, n, k) == IF k <= l % n THEN l \div n + 1 ELSE l \div n

RECURSIVE DivPoint(_, _, _)
DivPoint(l, n, k) == IF k = 0 THEN 0 ELSE DivPoint(l, n, k - 1) + SectionSize(l, n, k)

array_split(ary, n) ==
    [k \in 1..n |-> SubSeq(ary, DivPoint(Len(ary), n, k - 1) + 1, DivPoint(Len(ary), n, k))]

(***************************************************************************)
(* split_sources                                                           *)
(***************************************************************************)
ClampNone(len, c) == c

\* lines 227-229: cores never exceeds the number of sources
Clamp(len, c) == IF len < c THEN len ELSE c

\* lines 222-234: load the catalogs, clamp the cores, split the lists
SplitLoad ==
    /\ pc = "split_load"
    /\ LET rd == load_receiver_dict(rcvIn)
           s == load_sources_list(srcIn)
           sr == load_sources_list(refIn)
           c == Clamp(Len(s), cores)
       IN  /\ receiver_dict' = rd.dict
           /\ moddata' = rd.moddata
           /\ sources' = s
           /\ sources_ref' = sr
           /\ cores' = c
           /\ IF Len(s) # Len(sr)
              THEN /\ pc' = "error"
                   /\ err' = "ValueError"
                   /\ UNCHANGED <<distrib_s, distrib_sref>>
              ELSE /\ pc' = "split_loop"
                   /\ err' = err
                   /\ distrib_s' = array_split(s, c)
                   /\ distrib_sref' = array_split(sr, c)
    /\ UNCHANGED <<requested, srcIn, refIn, rcvIn, wds, parts, poolVars, mergeVars, arr, rsd, att, lsl>>

\* lines 256-268: the receivers of one source, pointing to its normalized id
SingleReceivers(source_ids, j) ==
    LET s_id == source_ids[j]
        n_s_id == s_id - source_ids[1] + 1
        s_receivers == receiver_dict[s_id]
    IN  IF s_id # n_s_id
        THEN [q \in 1..Len(s_receivers) |-> modify_receiver_source(s_receivers[q], n_s_id)]
        ELSE s_receivers

\* lines 249-268: the receivers of a sublist of sources
ActiveReceivers(source_ids) ==
    IF moddata
    THEN reset_moddata_rcv(receiver_dict[source_ids[1]], source_ids)
    ELSE Flatten([j \in 1..Len(source_ids) |-> SingleReceivers(source_ids, j)])

\* the source ids whose lookup in receiver_dict the loop body makes
LookedUp(source_ids) == IF moddata THEN {source_ids[1]} ELSE Range(source_ids)

CatalogFile(blocks) == [count |-> Len(blocks), blocks |-> blocks]

\* lines 238-273: one round of the loop over the sublists (subfolder i = Len(wds))
SplitWrite ==
    /\ pc = "split_loop"
    /\ Len(wds) < Len(distrib_s)
    /\ LET i == Len(wds)
           sub_s == distrib_s[i + 1]
           sub_sr == distrib_sref[i + 1]
           source_ids == [j \in 1..Len(sub_s) |-> sub_s[j][1]]
           srcFile == CatalogFile([j \in 1..Len(sub_s) |-> sub_s[j][2]])
           refFile == CatalogFile([j \in 1..Len(sub_sr) |-> sub_sr[j][2]])
       IN  IF source_ids = <<>>
           THEN \* source_ids[0] raises IndexError
                /\ parts' = parts @@ (i :> [sources |-> srcFile, sourcesref |-> refFile])
                /\ pc' = "error"
                /\ err' = "IndexError"
                /\ wds' = wds
           ELSE IF LookedUp(source_ids) \subseteq DOMAIN receiver_dict
           THEN /\ parts' = parts @@ (i :> [sources |-> srcFile, sourcesref |-> refFile,
                                            receivers |-> CatalogFile(ActiveReceivers(source_ids))])
                /\ wds' = Append(wds, i)
                /\ UNCHANGED <<pc, err>>
           ELSE \* receiver_dict[s_id] raises KeyError; sources.in and sourcesref.in are written
                /\ parts' = parts @@ (i :> [sources |-> srcFile, sourcesref |-> refFile])
                /\ pc' = "error"
                /\ err' = "KeyError"
                /\ wds' = wds
    /\ UNCHANGED <<requested, cores, srcIn, refIn, rcvIn, sources, sources_ref,
                   receiver_dict, moddata, distrib_s, distrib_sref, poolVars, mergeVars, arr, rsd, att, lsl>>

\* line 274 and line 502: return wds,cores
SplitReturn ==
    /\ pc = "split_loop"
    /\ Len(wds) = Len(distrib_s)
    /\ pc' = "pool"
    /\ UNCHANGED <<err, splitVars, poolVars, mergeVars, arr, rsd, att, lsl>>

(***************************************************************************)
(* Initial states.                                                         *)
(***************************************************************************)
\* every receiver names one source
SingleCatalogs(S, maxR) == {Catalog(l) : l \in SeqsOf(SeqsOf(1..S, 1, 1), 1, maxR)}

\* receivers naming one or more sources, none twice
ModCatalogs(S, maxR) ==
    {Catalog(l) : l \in SeqsOf({s \in SeqsOf(1..S, 1, S) : NoRepeat(s)}, 1, maxR)}

\* one receiver per source, in source order; or one receiver naming every source
PlainCatalogs(S) ==
    {Catalog([k \in 1..S |-> <<k>>]), Catalog(<<[k \in 1..S |-> k], [k \in 1..S |-> k]>>)}

\* nothing is loaded, split, run or merged yet
NothingYet ==
    /\ err = ""
    /\ sources = <<>> /\ sources_ref = <<>>
    /\ receiver_dict = <<>> /\ moddata = FALSE
    /\ distrib_s = <<>> /\ distrib_sref = <<>>
    /\ wds = <<>> /\ parts = <<>>
    /\ task = <<>> /\ outcome = <<>> /\ completed = <<>>
    /\ merge = {} /\ nread = 0 /\ readLog = <<>> /\ written = <<>>

\* no merge of file contents is under way
ArrIdle == arr = [pc |-> "idle"]
RsdIdle == rsd = [pc |-> "idle"]
AttIdle == att = [pc |-> "idle"]
LslIdle == lsl = [pc |-> "idle"]

\* __main__ before split_sources is called
InitCommon ==
    /\ pc = "split_load"
    /\ cores = requested
    /\ NothingYet

\* a merge called on its own, outside a run
RunIdle ==
    /\ pc = "idle"
    /\ requested = 0 /\ cores = 0
    /\ srcIn = <<>> /\ refIn = <<>> /\ rcvIn = <<>>
    /\ saved = {}
    /\ NothingYet

InitSplit ==
    /\ \E S \in 1..MaxSources, Sref \in 1..MaxSources :
         /\ Sref \in {S, S - 1}
         /\ srcIn = [k \in 1..S |-> SrcBlock(k)]
         /\ refIn = [k \in 1..Sref |-> RefBlock(k)]
         /\ \/ /\ requested \in 1..MaxCores
               /\ rcvIn \in PlainCatalogs(S)
            \/ /\ S = Sref
               /\ S <= MaxRcvSources
               /\ requested \in 1..S
               /\ rcvIn \in SingleCatalogs(S, MaxReceivers) \cup ModCatalogs(S, MaxModRcv)
    /\ saved = {}
    /\ InitCommon
    /\ ArrIdle /\ RsdIdle /\ AttIdle /\ LslIdle

NextSplit == SplitLoad \/ SplitWrite \/ SplitReturn

SpecSplit == InitSplit /\ [][NextSplit]_vars

(***************************************************************************)
(* parallel(execute,cores,pick_wds): a pool of `cores` processes maps      *)
(* execute over the subfolders; map returns when every call has ended, and *)
(* raises when a call raised.                                              *)
(***************************************************************************)
\* What a call of execute can leave behind.  fmtomo() runs the solver with
\* subprocess.call and drops its return code, so a failed solver run returns
\* like a good one; only an exception of execute itself (a required file
\* that is missing, a binary that cannot be started) reaches the pool.
\*   "ok"      the solver ended well and wrote its result files
\*   "nofiles" the solver failed and wrote no result file
\*   "partial" the solver failed after it wrote result files
\*   "raised"  execute raised
Outcomes == {"ok", "nofiles", "partial", "raised"}

Failed(o) == o \in {"nofiles", "partial", "raised"}

\* line 486-487: the calls are handed to the pool
PoolStart ==
    /\ pc = "pool"
    /\ task' = [k \in Range(wds) |-> "running"]
    /\ pc' = "map"
    /\ UNCHANGED <<err, splitVars, outcome, completed, saved, mergeVars, arr, rsd, att, lsl>>

\* lines 455-475: one call of execute ends
TaskEnd(k) ==
    /\ pc = "map"
    /\ k \in DOMAIN task
    /\ task[k] = "running"
    /\ \E o \in Outcomes :
         /\ outcome' = outcome @@ (k :> o)
         /\ task' = [task EXCEPT ![k] = IF o = "raised" THEN "raised" ELSE "returned"]
    /\ completed' = Append(completed, k)
    /\ UNCHANGED <<pc, err, splitVars, saved, mergeVars, arr, rsd, att, lsl>>

\* line 487: p.map blocks until no call is left
MapReady == \A k \in DOMAIN task : task[k] # "running"

\* lines 487-488 and 504-505: map returns, or raises the exception of a call
MapReturn ==
    /\ pc = "map"
    /\ MapReady
    /\ IF \E k \in DOMAIN task : task[k] = "raised"
       THEN pc' = "error" /\ err' = "WorkerException"
       ELSE pc' = "combine" /\ err' = err
    /\ UNCHANGED <<splitVars, poolVars, mergeVars, arr, rsd, att, lsl>>

(***************************************************************************)
(* __main__, lines 507-518: the merges, each over the list of the result   *)
(* files of subfolders 0..cores-1.                                         *)
(***************************************************************************)
Outputs == <<"arrivals.dat", "frechet.dat", "rays.dat", "arrtimes.dat">>

FileListByCompletion == completed

\* lines 507-510: [os.path.join(active_dir,str(i),...) for i in range(cores)]
FileList == [k \in 1..cores |-> k - 1]

\* whether subfolder k holds the result file that is joined into out
FileExists(k, out) ==
    /\ k \in DOMAIN outcome
    /\ outcome[k] \in {"ok", "partial"}
    /\ out \in {"arrivals.dat", "frechet.dat"} \cup saved

\* lines 511-516: rays.dat and arrtimes.dat are joined when subfolder 0 holds one
Called(out) ==
    out \in {"arrivals.dat", "frechet.dat"} \/ FileExists(FileList[1], out)

Current == Outputs[Len(written) + 1]

\* the call of a merge operation
CombineStart ==
    /\ pc = "combine"
    /\ Len(written) < Len(Outputs)
    /\ Current \notin merge
    /\ nread' = 0
    /\ IF Called(Current)
       THEN merge' = merge \cup {Current} /\ written' = written
       ELSE merge' = merge /\ written' = Append(written, <<Current, "skipped", <<>>>>)
    /\ UNCHANGED <<pc, err, splitVars, poolVars, readLog, arr, rsd, att, lsl>>

\* the merge operation in progress reads its next file
CombineRead ==
    /\ pc = "combine"
    /\ Len(written) < Len(Outputs)
    /\ Current \in merge
    /\ nread < Len(FileList)
    /\ LET f == FileList[nread + 1]
       IN  IF FileExists(f, Current)
           THEN /\ readLog' = Append(readLog, <<Current, f>>)
                /\ nread' = nread + 1
                /\ UNCHANGED <<pc, err>>
           ELSE /\ pc' = "error"
                /\ err' = "FileNotFoundError"
                /\ UNCHANGED <<readLog, nread>>
    /\ UNCHANGED <<splitVars, poolVars, merge, written, arr, rsd, att, lsl>>

\* the files of out read so far, in the order read
ReadOf(out) ==
    LET idx == Indices([e \in DOMAIN readLog |-> readLog[e][1] = out], 1)
    IN  [a \in 1..Len(idx) |-> readLog[idx[a]][2]]

\* the merge operation in progress has read every file and writes the output
CombineWrite ==
    /\ pc = "combine"
    /\ Len(written) < Len(Outputs)
    /\ Current \in merge
    /\ nread = Len(FileList)
    /\ written' = Append(written, <<Current, "joined", ReadOf(Current)>>)
    /\ nread' = 0
    /\ UNCHANGED <<pc, err, splitVars, poolVars, merge, readLog, arr, rsd, att, lsl>>

\* line 518: the tmp dir is removed
Cleanup ==
    /\ pc = "combine"
    /\ Len(written) = Len(Outputs)
    /\ pc' = "done"
    /\ UNCHANGED <<err, splitVars, poolVars, mergeVars, arr, rsd, att, lsl>>

InitRun ==
    /\ \E S \in 1..MaxRunSources :
         /\ srcIn = [k \in 1..S |-> SrcBlock(k)]
         /\ refIn = [k \in 1..S |-> RefBlock(k)]
         /\ rcvIn = Catalog([k \in 1..S |-> <<k>>])
    /\ requested \in 1..MaxRunCores
    /\ saved \in SUBSET {"rays.dat", "arrtimes.dat"}
    /\ InitCommon
    /\ ArrIdle /\ RsdIdle /\ AttIdle /\ LslIdle

Next ==
    \/ SplitLoad
    \/ SplitWrite
    \/ SplitReturn
    \/ PoolStart
    \/ \E k \in 0..(MaxRunCores - 1) : TaskEnd(k)
    \/ MapReturn
    \/ CombineStart
    \/ CombineRead
    \/ CombineWrite
    \/ Cleanup

Spec == InitRun /\ [][Next]_vars

(***************************************************************************)
(* The split: properties of the subfolders written.                        *)
(***************************************************************************)
\* the local-source counts of the subfolders, in subfolder order
PartSizes == [k \in 1..Len(wds) |-> parts[wds[k]].sources.count]

PartBlocks(file) == Flatten([k \in 1..Len(wds) |-> parts[wds[k]][file].blocks])

\* C1: for 1 <= N <= S, split_sources writes N subfolders whose sources are
\* contiguous slices of the catalog in its order, whose counts sum to S,
\* differ pairwise by at most 1 and do not increase with the subfolder index
\* (10 sources over 4 cores: 3,3,2,2); sourcesref.in is cut at the same places.
C1_BalancedContiguousSplit ==
    /\ [k \in 1..4 |-> SectionSize(10, 4, k)] = <<3, 3, 2, 2>>
    /\ (pc = "pool" /\ requested <= Len(srcIn)) =>
         /\ Len(wds) = requested
         /\ DOMAIN parts = 0..(requested - 1)
         /\ \A k \in 1..Len(wds) :
              /\ wds[k] = k - 1
              /\ Len(parts[k - 1].sources.blocks) = PartSizes[k]
              /\ parts[k - 1].sourcesref.count = PartSizes[k]
              /\ Len(parts[k - 1].sourcesref.blocks) = PartSizes[k]
         /\ PartBlocks("sources") = srcIn
         /\ PartBlocks("sourcesref") = refIn
         /\ SeqSum(PartSizes) = Len(srcIn)
         /\ \A a, b \in 1..Len(wds) :
              a < b => PartSizes[a] >= PartSizes[b] /\ PartSizes[a] - PartSizes[b] <= 1

C1_Witness ==
    /\ pc = "pool"
    /\ Len(srcIn) = 5
    /\ requested = 3
    /\ PartSizes = <<2, 2, 1>>

SplitErrors == {"ValueError", "KeyError", "IndexError"}

\* C2: when more cores are asked for than there are sources, cores is set to
\* the number S of sources, S subfolders of one source each are written, the
\* pool runs one call per subfolder, and every merge reads the result files
\* of exactly the subfolders written.
C2_ClampedToSources ==
    (requested > Len(srcIn) /\ pc # "split_load" /\ err \notin SplitErrors) =>
        /\ cores = Len(srcIn)
        /\ pc # "split_loop" =>
             /\ Len(wds) = Len(srcIn)
             /\ DOMAIN parts = 0..(Len(srcIn) - 1)
             /\ \A k \in DOMAIN parts :
                  /\ parts[k].sources.count = 1
                  /\ Len(parts[k].sources.blocks) = 1
        /\ pc \notin {"split_loop", "pool"} => DOMAIN task = DOMAIN parts
        /\ \A e \in Range(readLog) : e[2] \in DOMAIN parts
        /\ \A w \in Range(written) :
             w[2] = "joined" => Len(w[3]) = Len(srcIn) /\ Range(w[3]) = DOMAIN parts

C2_Witness ==
    /\ pc = "done"
    /\ Len(srcIn) = 3
    /\ requested > 3
    /\ PartSizes = <<1, 1, 1>>
    /\ written[1] = <<"arrivals.dat", "joined", <<0, 1, 2>>>>

\* C3: in both modes, every source id on the source-id line of a receiver
\* block written to a subfolder of k sources is in 1..k and is the local id
\* (original id - first original id of the sublist + 1) of the source that
\* this entry of the receiver named in receivers.in.
C3_ReceiversKeepTheirSource ==
    \A i \in DOMAIN parts :
        "receivers" \in DOMAIN parts[i] =>
            LET chunk == distrib_s[i + 1]
                first == chunk[1][1]
                k == Len(chunk)
                chunkIds == {chunk[j][1] : j \in 1..k}
            IN  \A q \in DOMAIN parts[i].receivers.blocks :
                    LET b == parts[i].receivers.blocks[q]
                        orig == rcvIn[b.loc]
                        kept == Indices([a \in DOMAIN orig.ids |-> orig.ids[a] \in chunkIds], 1)
                    IN  /\ \A a \in DOMAIN b.ids : b.ids[a] \in 1..k
                        /\ Len(b.ids) = Len(kept)
                        /\ \A a \in DOMAIN b.ids :
                             b.ids[a] = orig.ids[kept[a]] - first + 1

PosIn(s, x) == CHOOSE j \in DOMAIN s : s[j] = x

\* C4: in multi-source mode reset_moddata_rcv keeps, of each receiver block,
\* exactly the entries whose source id is in the sublist, in their order,
\* numbers them 1..m, keeps the path spec of each kept entry with it and
\* writes m on the count line ({2,5,9} filtered by {5,9}: ids 1,2, the path
\* specs of 5 and 9, count 2).
C4_ModdataFilter ==
    /\ ResetBlock(RcvBlock(1, <<2, 5, 9>>), <<5, 9>>) =
         [loc |-> 1, n |-> 2, ids |-> <<1, 2>>, paths |-> <<PathOf(1, 2), PathOf(1, 3)>>]
    /\ moddata =>
         \A i \in DOMAIN parts :
             "receivers" \in DOMAIN parts[i] =>
                 LET chunk == distrib_s[i + 1]
                     chunkIds == {chunk[j][1] : j \in 1..Len(chunk)}
                     given == receiver_dict[chunk[1][1]]
                     out == parts[i].receivers.blocks
                 IN  /\ Len(out) = Len(given)
                     /\ \A q \in DOMAIN out :
                          LET b == out[q]
                              orig == given[q]
                              keptSet == {j \in DOMAIN orig.ids : orig.ids[j] \in chunkIds}
                              m == Cardinality(keptSet)
                          IN  /\ b.loc = orig.loc
                              /\ b.n = m
                              /\ b.ids = [a \in 1..m |-> a]
                              /\ Len(b.paths) = m
                              /\ {PosIn(orig.paths, b.paths[a]) : a \in 1..m} = keptSet
                              /\ \A a, c \in 1..m :
                                   a < c => PosIn(orig.paths, b.paths[a]) < PosIn(orig.paths, b.paths[c])

C4_Witness ==
    /\ pc = "pool"
    /\ moddata
    /\ \E i \in DOMAIN parts :
         \E q \in DOMAIN parts[i].receivers.blocks :
             LET b == parts[i].receivers.blocks[q]
             IN  /\ b.n = 2
                 /\ Len(rcvIn[b.loc].ids) = 3
                 /\ b.paths = <<PathOf(b.loc, 1), PathOf(b.loc, 3)>>

(***************************************************************************)
(* The run: properties of the pool and of the merges.                      *)
(***************************************************************************)
\* C7: when the worker of a subfolder failed, no merge operation is called
\* and no combined output is written.
C7_NoMergeAfterWorkerFailure ==
    (\E k \in DOMAIN outcome : Failed(outcome[k])) => (merge = {} /\ written = <<>>)

\* C8: no merge operation is called while a worker is running, and every
\* merge reads the result files in ascending subfolder index 0,1,..,N-1,
\* whatever the order in which the workers ended.
C8_BarrierAndFixedOrder ==
    /\ merge # {} =>
         /\ DOMAIN task = 0..(cores - 1)
         /\ \A k \in DOMAIN task : task[k] # "running"
         /\ Len(completed) = cores
    /\ \A out \in Range(Outputs) : ReadOf(out) = [a \in 1..Len(ReadOf(out)) |-> a - 1]
    /\ \A w \in Range(written) : w[2] = "joined" => w[3] = [a \in 1..cores |-> a - 1]

C8_Witness ==
    /\ pc = "done"
    /\ cores = 3
    /\ completed = <<2, 0, 1>>
    /\ written[1] = <<"arrivals.dat", "joined", <<0, 1, 2>>>>
    /\ written[2] = <<"frechet.dat", "joined", <<0, 1, 2>>>>

(***************************************************************************)
(* Result files.  The files of one merge are the pieces of one sequence of *)
(* records cut at N - 1 places, one piece (possibly empty) per subfolder.  *)
(***************************************************************************)
Cuts(n, N) ==
    {c \in [0..N -> 0..n] : c[0] = 0 /\ c[N] = n /\ \A k \in 1..N : c[k - 1] <= c[k]}

Pieces(s, c, N) == [k \in 1..N |-> SubSeq(s, c[k - 1] + 1, c[k])]

RECURSIVE SortedSeq(_)
SortedSeq(S) ==
    IF S = {} THEN <<>>
    ELSE LET m == CHOOSE x \in S : \A y \in S : x <= y
         IN  <<m>> \o SortedSeq(S \ {m})

(***************************************************************************)
(* combine_arrivals.  A row of arrivals.dat is its ray index (column 0),   *)
(* its source id (column 1) and its other columns (data).                  *)
(***************************************************************************)
\* arrivals.dat of subfolder f: its rows number their rays from 1
ArrFile(f, ids) == [j \in 1..Len(ids) |-> [ray |-> j, src |-> ids[j], data |-> <<f, j>>]]

\* line 291: df_tmp.groupby(1): one group per source id, in ascending id
\* order, each with its rows in file order
GroupBy(df) ==
    LET keys == SortedSeq({df[j].src : j \in DOMAIN df})
    IN  [g \in 1..Len(keys) |->
            LET InGroup(r) == r.src = keys[g] IN SelectSeq(df, InGroup)]

\* lines 293-297: the g-th group of the file gets source id counter + g - 1
SetSourceIds(groups, counter) ==
    [g \in 1..Len(groups) |->
        [j \in 1..Len(groups[g]) |-> [groups[g][j] EXCEPT !.src = counter + g - 1]]]

KeepRayIndex(df) == df

\* line 303: df[0] = np.arange(1,len(df)+1)
ResetRayIndex(df) == [j \in 1..Len(df) |-> [df[j] EXCEPT !.ray = j]]

\* lines 287-299: one round of the loop over the files
ArrReadFile ==
    /\ arr.pc = "read"
    /\ arr.f < Len(arr.fs)
    /\ LET df_tmp == arr.fs[arr.f + 1]
           dfs_tmp == GroupBy(df_tmp)
       IN  IF df_tmp = <<>>
           THEN \* pd.read_csv raises EmptyDataError on a file without a row
                arr' = [arr EXCEPT !.pc = "error"]
           ELSE arr' = [arr EXCEPT !.f = @ + 1,
                                   !.counter = @ + Len(dfs_tmp),
                                   !.dfs = @ \o SetSourceIds(dfs_tmp, arr.counter)]
    /\ UNCHANGED <<runVars, rsd, att, lsl>>

\* lines 301-305: concatenate, renumber the rays, save
ArrWrite ==
    /\ arr.pc = "read"
    /\ arr.f = Len(arr.fs)
    /\ arr' = [arr EXCEPT !.pc = "done", !.out = ResetRayIndex(Flatten(arr.dfs))]
    /\ UNCHANGED <<runVars, rsd, att, lsl>>

InitArr ==
    /\ \E n \in 1..MaxArrRows, N \in 1..MaxFiles :
         \E ids \in [1..n -> 1..MaxLocalId], c \in Cuts(n, N) :
             arr = [pc |-> "read",
                    fs |-> [k \in 1..N |-> ArrFile(k - 1, Pieces(ids, c, N)[k])],
                    f |-> 0, counter |-> 1, dfs |-> <<>>, out |-> <<>>]
    /\ RunIdle /\ RsdIdle /\ AttIdle /\ LslIdle

NextArr == ArrReadFile \/ ArrWrite

SpecArr == InitArr /\ [][NextArr]_vars

Max(S) == CHOOSE x \in S : \A y \in S : y <= x

\* the size of the partition of file i, taken as small as the file allows:
\* the largest local source id of its rows
ArrPartSize(i) == Max({arr.fs[i][j].src : j \in DOMAIN arr.fs[i]})

ArrOffset(i) == SeqSum([h \in 1..(i - 1) |-> ArrPartSize(h)])

\* C5: after combine_arrivals over files of partitions of sizes k1..kN, the
\* source ids of the output are exactly 1..sum(ki), do not decrease down the
\* file, and the row of local id l of partition i carries (k1+..+k(i-1)) + l.
C5_GlobalSourceIds ==
    arr.pc = "done" =>
        /\ {arr.out[j].src : j \in DOMAIN arr.out} = 1..ArrOffset(Len(arr.fs) + 1)
        /\ \A j \in 1..(Len(arr.out) - 1) : arr.out[j].src <= arr.out[j + 1].src
        /\ \A j \in DOMAIN arr.out :
             LET i == arr.out[j].data[1] + 1
                 l == arr.fs[i][arr.out[j].data[2]].src
             IN  arr.out[j].src = ArrOffset(i) + l

CorrLines == 4

\* the lines between two headers, in the files of one merge
BodySizes == {1, CorrLines, CorrLines + 1}

\* the header of the h-th ray of subfolder f, of local event ev, and a line below it
HeaderLine(f, h, ev) == [f |-> <<h, ev, ev, 100 * (f + 1) + h, 0>>, sep |-> " "]
BodyLine(f, h, b) == [f |-> <<b, 1000 * (f + 1) + 10 * h + b>>, sep |-> " "]

RayFile(f, evs, nb) ==
    Flatten([h \in 1..Len(evs) |->
        <<HeaderLine(f, h, evs[h])>> \o [b \in 1..nb |-> BodyLine(f, h, b)]])

\* check_source_inversion: the switch of invert3d.in, or, without that file,
\* whether the first source of sourcesref.in carries more than 3 values
check_source_inversion(ctl) ==
    IF ctl.invert3d # "absent" THEN ctl.invert3d # "0" ELSE ctl.refcols > 3

Controls ==
    {[invert3d |-> s, refcols |-> 3] : s \in {"0", "1"}}
        \cup {[invert3d |-> "absent", refcols |-> c] : c \in {3, 6}}

\* line 335: a header line has more than min_n_data_for_header fields
IsHeaderLine(l, min_n) == Len(l.f) > min_n

\* lines 344-362: the headers of one file, in order.  st holds the lines
\* rewritten so far and unique_evs, counter and ray_idx.
RECURSIVE RewriteHeaders(_, _, _, _)
RewriteHeaders(lines, i, out, st) ==
    IF i > Len(lines) THEN st
    ELSE LET l_data == lines[i]
             ev == l_data[2]
             new == ev \notin Range(st.unique_evs)
             counter == IF new THEN st.counter + 1 ELSE st.counter
             line == IF out = "rays.dat"
                     THEN [l_data EXCEPT ![2] = counter, ![3] = counter]
                     ELSE [l_data EXCEPT ![1] = st.ray_idx, ![2] = counter]
         IN  RewriteHeaders(lines, i + 1, out,
                 [lines |-> Append(st.lines, line),
                  unique_evs |-> IF new THEN Append(st.unique_evs, ev) ELSE st.unique_evs,
                  counter |-> counter,
                  ray_idx |-> st.ray_idx + 1])

\* line 364-365: the rewritten headers are put back, joined with tabs
RECURSIVE PutBack(_, _, _, _)
PutBack(data, idxs, lines, k) ==
    IF k > Len(lines) THEN data
    ELSE PutBack([data EXCEPT ![idxs[k]] = [f |-> lines[k], sep |-> "tab"]], idxs, lines, k + 1)

\* data[idx-subtract] of a Python list, idx counted from 1 here: an index
\* below the first line counts from the end of the list; 0 when out of range
PyIndex(p, len) == IF p >= 1 THEN p ELSE IF p + len >= 1 THEN p + len ELSE 0

CorrTargetsNoEnd(idxs, len) ==
    Flatten([k \in 1..(Len(idxs) - 2) |->
        [subtract \in 1..CorrLines |-> PyIndex(idxs[k + 1] - subtract, len)]])

\* lines 370-371: the lines the correction visits, in the order visited
CorrTargets(idxs, len) ==
    Flatten([k \in 1..(Len(idxs) - 1) |->
        [subtract \in 1..CorrLines |-> PyIndex(idxs[k + 1] - subtract, len)]])

\* lines 372-374: 4 * n_evs_prev is added to the first field of each line visited
RECURSIVE Correct(_, _, _)
Correct(data, targets, n_evs_prev) ==
    IF targets = <<>> THEN data
    ELSE LET p == Head(targets)
             bad_frech == data[p].f
         IN  Correct([data EXCEPT ![p] =
                        [f |-> [bad_frech EXCEPT ![1] = @ + CorrLines * n_evs_prev],
                         sep |-> "tab"]],
                     Tail(targets), n_evs_prev)

CorrectionAlways(out, ctl) == out = "frechet.dat"

\* lines 366-368: the correction is made for frechet.dat when sources are inverted for
CorrectionOn(out, ctl) == out = "frechet.dat" /\ check_source_inversion(ctl)

\* lines 323-378: one round of the loop over the files
RsdReadFile ==
    /\ rsd.pc = "read"
    /\ rsd.f < Len(rsd.fs)
    /\ LET data == rsd.fs[rsd.f + 1]
           heads == Indices([i \in DOMAIN data |-> IsHeaderLine(data[i], rsd.min_n)], 1)
           idxs == Append(heads, Len(data) + 1)
           st == RewriteHeaders([k \in 1..Len(heads) |-> data[heads[k]].f], 1, rsd.out,
                     [lines |-> <<>>, unique_evs |-> <<>>,
                      counter |-> rsd.counter, ray_idx |-> rsd.ray_idx])
           data1 == PutBack(data, heads, st.lines, 1)
           targets == IF CorrectionOn(rsd.out, rsd.ctl) THEN CorrTargets(idxs, Len(data)) ELSE <<>>
       IN  IF 0 \in Range(targets)
           THEN \* data[idx-subtract] raises IndexError
                rsd' = [rsd EXCEPT !.pc = "error"]
           ELSE rsd' = [rsd EXCEPT !.f = @ + 1,
                                   !.ray_idx = st.ray_idx,
                                   !.counter = st.counter,
                                   !.n_evs_prev = @ + Len(st.unique_evs),
                                   !.all_lines = @ \o Correct(data1, targets, rsd.n_evs_prev)]
    /\ UNCHANGED <<runVars, arr, att, lsl>>

\* lines 380-381: the combined lines are saved
RsdWrite ==
    /\ rsd.pc = "read"
    /\ rsd.f = Len(rsd.fs)
    /\ rsd' = [rsd EXCEPT !.pc = "done"]
    /\ UNCHANGED <<runVars, arr, att, lsl>>

\* lines 512-514: frechet.dat with the default threshold, rays.dat with 4
RsdCalls ==
    {[out |-> "frechet.dat", min_n |-> 3, ctl |-> c] : c \in Controls}
        \cup {[out |-> "rays.dat", min_n |-> 4, ctl |-> [invert3d |-> "1", refcols |-> 3]]}

InitRsd ==
    /\ \E n \in 1..MaxHeaders, N \in 1..MaxFiles, nb \in BodySizes, call \in RsdCalls :
         \E evs \in [1..n -> 1..MaxLocalId], c \in Cuts(n, N) :
             rsd = [pc |-> "read", out |-> call.out, min_n |-> call.min_n, ctl |-> call.ctl,
                    fs |-> [k \in 1..N |-> RayFile(k - 1, Pieces(evs, c, N)[k], nb)],
                    f |-> 0, ray_idx |-> 1, counter |-> 0, n_evs_prev |-> 0,
                    all_lines |-> <<>>]
    /\ RunIdle /\ ArrIdle /\ AttIdle /\ LslIdle

NextRsd == RsdReadFile \/ RsdWrite

SpecRsd == InitRsd /\ [][NextRsd]_vars

\* the lines of the input files, in file order
RsdInput == Flatten(rsd.fs)

\* C9: when check_source_inversion is false, combine_ray_sep_data for
\* frechet.dat writes every line that is no header as it was read; of a
\* header only the ray index and the event id are rewritten.
C9_NoCorrectionWithoutInversion ==
    (rsd.pc = "done" /\ rsd.out = "frechet.dat" /\ ~check_source_inversion(rsd.ctl)) =>
        /\ Len(rsd.all_lines) = Len(RsdInput)
        /\ \A p \in DOMAIN RsdInput :
             IF IsHeaderLine(RsdInput[p], rsd.min_n)
             THEN /\ Len(rsd.all_lines[p].f) = Len(RsdInput[p].f)
                  /\ rsd.all_lines[p].f[1] =
                       Cardinality({q \in 1..p : IsHeaderLine(RsdInput[q], rsd.min_n)})
                  /\ \A k \in 3..Len(RsdInput[p].f) : rsd.all_lines[p].f[k] = RsdInput[p].f[k]
             ELSE rsd.all_lines[p] = RsdInput[p]

C9_Witness ==
    /\ rsd.pc = "done"
    /\ rsd.out = "frechet.dat"
    /\ rsd.ctl = [invert3d |-> "absent", refcols |-> 3]
    /\ Len(rsd.fs) = 2
    /\ Len(rsd.fs[1]) = 5
    /\ Len(rsd.fs[2]) = 10
    /\ rsd.all_lines[10] = BodyLine(1, 1, 4)

(***************************************************************************)
(* combine_arrtimes.  A line is its fields and how they are set apart:     *)
(* " " as the solver wrote it, "sp11" and "sp10" as the merge writes it.   *)
(***************************************************************************)
\* lines 400 and 402: the header block of arrtimes.dat
HeaderBlock == 4

\* arrtimes.dat of subfolder f: the header block, whose last line counts the
\* events of the file, and below it one line per kind: a per-event header of
\* local id kind, or for kind 0 a line of one value
ArtBodyLine(f, j, kind) ==
    IF kind = 0 THEN [f |-> <<100 * (f + 1) + j>>, sep |-> " "]
    ELSE [f |-> <<kind, 100 * (f + 1) + j>>, sep |-> " "]

ArtFile(f, kinds) ==
    [h \in 1..HeaderBlock |->
        [f |-> <<IF h = HeaderBlock
                 THEN Cardinality({j \in DOMAIN kinds : kinds[j] # 0})
                 ELSE 0 - (10 * (f + 1) + h)>>,
         sep |-> " "]]
    \o [j \in 1..Len(kinds) |-> ArtBodyLine(f, j, kinds[j])]

AttHeaderEvery(i, data) == SubSeq(data, 1, HeaderBlock)

\* lines 399-400: the header block is taken from the first file
AttHeader(i, data) == IF i = 0 THEN SubSeq(data, 1, HeaderBlock) ELSE <<>>

\* lines 404-418: the lines below the header block, in order
RECURSIVE AttLines(_, _)
AttLines(data, st) ==
    IF data = <<>> THEN st
    ELSE LET l == Head(data)
             possible_header == l.f
         IN  IF Len(possible_header) > 1
             THEN AttLines(Tail(data),
                      [ev_counter |-> st.ev_counter + 1,
                       all_lines |-> Append(st.all_lines,
                           [f |-> [possible_header EXCEPT ![1] = st.ev_counter + 1],
                            sep |-> "sp11"])])
             ELSE AttLines(Tail(data),
                      [ev_counter |-> st.ev_counter, all_lines |-> Append(st.all_lines, l)])

\* lines 394-418: one round of the loop over the files
AttReadFile ==
    /\ att.pc = "read"
    /\ att.f < Len(att.fs)
    /\ LET data == att.fs[att.f + 1]
           st == AttLines(SubSeq(data, HeaderBlock + 1, Len(data)),
                          [ev_counter |-> att.ev_counter,
                           all_lines |-> att.all_lines \o AttHeader(att.f, data)])
       IN  att' = [att EXCEPT !.f = @ + 1,
                              !.ev_counter = st.ev_counter,
                              !.all_lines = st.all_lines]
    /\ UNCHANGED <<runVars, arr, rsd, lsl>>

\* lines 420-423: the event count of the header block is set, the lines are saved
AttWrite ==
    /\ att.pc = "read"
    /\ att.f = Len(att.fs)
    /\ att' = [att EXCEPT !.pc = "done",
                          !.all_lines[HeaderBlock] = [f |-> <<att.ev_counter>>, sep |-> "sp10"]]
    /\ UNCHANGED <<runVars, arr, rsd, lsl>>

InitAtt ==
    /\ \E n \in 1..MaxArtLines, N \in 1..MaxFiles :
         \E kinds \in [1..n -> 0..MaxLocalId], c \in Cuts(n, N) :
             att = [pc |-> "read",
                    fs |-> [k \in 1..N |-> ArtFile(k - 1, Pieces(kinds, c, N)[k])],
                    f |-> 0, ev_counter |-> 0, all_lines |-> <<>>]
    /\ RunIdle /\ ArrIdle /\ RsdIdle /\ LslIdle

NextAtt == AttReadFile \/ AttWrite

SpecAtt == InitAtt /\ [][NextAtt]_vars

\* the lines below the header blocks of the input files, in file order
AttBodies ==
    Flatten([i \in 1..Len(att.fs) |-> SubSeq(att.fs[i], HeaderBlock + 1, Len(att.fs[i]))])

\* how many of the first p lines of s have more than one field
EventsUpTo(s, p) == Cardinality({q \in 1..p : Len(s[q].f) > 1})

\* C10: combine_arrtimes writes the 4-line header block once, that of the
\* first file; below it the lines of all files in file order, the j-th line
\* of more than one field with j as its first field and every line of one
\* field as it was read; and line 4 holds the number E of per-event headers.
C10_ArrtimesRenumbered ==
    att.pc = "done" =>
        /\ Len(att.all_lines) = HeaderBlock + Len(AttBodies)
        /\ \A h \in 1..(HeaderBlock - 1) : att.all_lines[h] = att.fs[1][h]
        /\ att.all_lines[HeaderBlock].f = <<EventsUpTo(AttBodies, Len(AttBodies))>>
        /\ \A p \in DOMAIN AttBodies :
             LET l == AttBodies[p]
                 o == att.all_lines[HeaderBlock + p]
             IN  IF Len(l.f) > 1
                 THEN /\ o.f[1] = EventsUpTo(AttBodies, p)
                      /\ Len(o.f) = Len(l.f)
                      /\ \A k \in 2..Len(l.f) : o.f[k] = l.f[k]
                 ELSE o = l

C10_Witness ==
    /\ att.pc = "done"
    /\ Len(att.fs) = 2
    /\ Len(att.all_lines) = HeaderBlock + 4
    /\ att.all_lines[HeaderBlock].f = <<3>>
    /\ att.fs[2][HeaderBlock + 1].f[1] = 1
    /\ att.all_lines[HeaderBlock + 3].f[1] = 3
    /\ Len(att.all_lines[HeaderBlock + 4].f) = 1

(***************************************************************************)
(* The split: a source that no receiver names.                             *)
(***************************************************************************)
\* the receivers a source would contribute if a missing source gave none
ReceiversOrNone(source_ids, j) ==
    IF source_ids[j] \in DOMAIN receiver_dict THEN SingleReceivers(source_ids, j) ELSE <<>>

\* the sublists of single-source mode holding a source that no receiver names
UnnamedChunks ==
    {i \in 1..Len(distrib_s) :
        /\ ~moddata
        /\ \E j \in DOMAIN distrib_s[i] : distrib_s[i][j][1] \notin DOMAIN receiver_dict}

\* C11: in single-source mode, a source of a sublist that no receiver names
\* contributes zero receivers and raises nothing: the subfolder of every such
\* sublist that the loop has reached is written, its receivers.in holding the
\* receivers of the other sources of the sublist in source order.
C11_UnnamedSourceSkipped ==
    \A i \in UnnamedChunks :
        /\ (pc = "error" /\ Len(wds) = i - 1) => err # "KeyError"
        /\ Len(wds) >= i =>
             /\ "receivers" \in DOMAIN parts[i - 1]
             /\ LET source_ids == [j \in DOMAIN distrib_s[i] |-> distrib_s[i][j][1]]
                IN  parts[i - 1].receivers.blocks =
                        Flatten([j \in DOMAIN source_ids |-> ReceiversOrNone(source_ids, j)])

(***************************************************************************)
(* load_sources_list, line by line.  A line of the catalog is known by its *)
(* place in the file and by what the parser tests on it: a location line   *)
(* holds a decimal point, a switch or path line holds integers only, a     *)
(* phase line holds no digit, a blank line holds nothing.                  *)
(***************************************************************************)
LineKinds == {"int", "phase", "loc", "blank"}

\* the lines of the file below its first line (the count of sources)
SrcFile(kinds) == [k \in 1..Len(kinds) |-> [n |-> k, kind |-> kinds[k]]]

\* line 153: "." in l
HasDot(l) == l.kind = "loc"

\* line 161: re.search("[0-9]",l)
HasDigit(l) == l.kind \in {"int", "loc"}

\* line 147: the lines l of the file with l.strip() not empty
DataLines(file) ==
    LET keep == Indices([k \in DOMAIN file |-> file[k].kind # "blank"], 1)
    IN  [q \in 1..Len(keep) |-> file[keep[q]]]

\* lines 161-170: the start of the block of the location line at Python
\* index i (from 0); lines[i-1] of the first line is the last line of the list
SourceStart(lines, i) ==
    IF ~HasDigit(lines[PyIndex(i, Len(lines))]) THEN i - 2 ELSE i - 1

\* lines 149-172: source_starts, as Python indices, closed by len(lines)
SourceStarts(lines) ==
    LET locs == Indices([p \in DOMAIN lines |-> HasDot(lines[p])], 1)
    IN  [q \in 1..Len(locs) |-> SourceStart(lines, locs[q] - 1)] \o <<Len(lines)>>

\* a bound of a Python slice of a list of length len, as a count of elements
SliceBound(x, len) ==
    IF x < 0 THEN (IF x + len < 0 THEN 0 ELSE x + len) ELSE IF x > len THEN len ELSE x

\* s[a:b] of a Python list
PySlice(s, a, b) == SubSeq(s, SliceBound(a, Len(s)) + 1, SliceBound(b, Len(s)))

\* line 174: the (number, block) pairs
SourceBlocks(lines, starts) ==
    [i \in 1..(Len(starts) - 1) |-> <<i, PySlice(lines, starts[i], starts[i + 1])>>]

\* lines 145-172: the file is read and scanned for the starts of the blocks
LslScan ==
    /\ lsl.pc = "scan"
    /\ LET lines == DataLines(lsl.file)
       IN  lsl' = [lsl EXCEPT !.pc = "segment",
                              !.lines = lines,
                              !.source_starts = SourceStarts(lines)]
    /\ UNCHANGED <<runVars, arr, rsd, att>>

\* lines 173-175: the lines are cut at the starts and the list is returned
LslSegment ==
    /\ lsl.pc = "segment"
    /\ lsl' = [lsl EXCEPT !.pc = "returned",
                          !.sources = SourceBlocks(lsl.lines, lsl.source_starts)]
    /\ UNCHANGED <<runVars, arr, rsd, att>>

InitLsl ==
    /\ \E kinds \in SeqsOf(LineKinds, 0, MaxSrcLines) :
         lsl = [pc |-> "scan", file |-> SrcFile(kinds),
                lines |-> <<>>, source_starts |-> <<>>, sources |-> <<>>]
    /\ RunIdle /\ ArrIdle /\ RsdIdle /\ AttIdle

NextLsl == LslScan \/ LslSegment

SpecLsl == InitLsl /\ [][NextLsl]_vars

\* the block starts computed for the location lines, without the closing len(lines)
BlockStarts ==
    IF lsl.source_starts = <<>> THEN <<>>
    ELSE SubSeq(lsl.source_starts, 1, Len(lsl.source_starts) - 1)

\* the catalog has no location line
NoLocationLine == \A p \in DOMAIN lsl.lines : ~HasDot(lsl.lines[p])

\* a block start lies outside the file, or the starts do not strictly increase
BadBlockStarts ==
    \/ \E q \in DOMAIN BlockStarts : BlockStarts[q] \notin 0..(Len(lsl.lines) - 1)
    \/ \E q \in 1..(Len(BlockStarts) - 1) : BlockStarts[q] >= BlockStarts[q + 1]

\* C12: load_sources_list fails with a format error, and returns no list of
\* blocks, when the catalog has no location line and when the block starts
\* computed are not strictly increasing or lie outside the file.
C12_MalformedCatalogRejected ==
    (NoLocationLine \/ BadBlockStarts) => lsl.pc # "returned"

(***************************************************************************)
(* combine_ray_sep_data: the correction of frechet.dat, and the event ids  *)
(* of the headers.                                                         *)
(***************************************************************************)
\* where the lines of the i-th input file start in the combined lines
RsdOffset(i) == SeqSum([k \in 1..(i - 1) |-> Len(rsd.fs[k])])

\* the positions of the header lines of the i-th input file
RsdHeaders(i) == {p \in DOMAIN rsd.fs[i] : IsHeaderLine(rsd.fs[i][p], rsd.min_n)}

\* the local event ids of the i-th input file
RsdLocalEvs(i) == {rsd.fs[i][p].f[2] : p \in RsdHeaders(i)}

\* the distinct events of the files before the i-th
RsdEvsBefore(i) == SeqSum([k \in 1..(i - 1) |-> Cardinality(RsdLocalEvs(k))])

\* the header lines among the first p lines of the i-th file and in the files before it
RsdRayOrdinal(i, p) ==
    SeqSum([k \in 1..(i - 1) |-> Cardinality(RsdHeaders(k))])
        + Cardinality({q \in RsdHeaders(i) : q <= p})

\* a header of the i-th file after its first header lies 1..4 lines below line p
BeforeLaterHeader(i, p) ==
    \E h \in RsdHeaders(i) :
        /\ \E g \in RsdHeaders(i) : g < h
        /\ h - p \in 1..CorrLines

\* line p is one of the last four lines of the i-th file
AtEndOfFile(i, p) == Len(rsd.fs[i]) + 1 - p \in 1..CorrLines

\* every header of every file has at least four lines that are no header below it
FullBodies ==
    \A i \in DOMAIN rsd.fs : \A h \in RsdHeaders(i) :
        \A d \in 1..CorrLines :
            h + d \in DOMAIN rsd.fs[i] /\ h + d \notin RsdHeaders(i)

\* the line as the correction leaves it: 4 * eventsSeenSoFar more in its first field
Corrected(l, i) == [l.f EXCEPT ![1] = @ + CorrLines * RsdEvsBefore(i)]

\* a header keeps its fields but for the rewrite of ray index and event id
HeaderKept(l, o, i, p) ==
    /\ Len(o.f) = Len(l.f)
    /\ o.f[1] = RsdRayOrdinal(i, p)
    /\ \A k \in 3..Len(l.f) : o.f[k] = l.f[k]

\* C13 as stated: with the source-inversion flag set, the lines corrected in
\* a file of frechet.dat are the four lines before each header after the
\* first header of the file, each no header line, each with
\* 4 * eventsSeenSoFar added to its first field; no header line and no other
\* line below a header is changed by the correction.
C13_FourBeforeLaterHeaders ==
    (rsd.pc = "done" /\ CorrectionOn(rsd.out, rsd.ctl)) =>
        /\ Len(rsd.all_lines) = Len(RsdInput)
        /\ \A i \in DOMAIN rsd.fs : \A p \in DOMAIN rsd.fs[i] :
             LET l == rsd.fs[i][p]
                 o == rsd.all_lines[RsdOffset(i) + p]
             IN  IF BeforeLaterHeader(i, p)
                 THEN p \notin RsdHeaders(i) /\ o.f = Corrected(l, i)
                 ELSE IF p \in RsdHeaders(i) THEN HeaderKept(l, o, i, p)
                 ELSE o.f = l.f

\* C13, amended: with the source-inversion flag set, in files of frechet.dat
\* whose headers each have at least four lines below them, the lines
\* corrected are the last four lines below every header: the four lines
\* before each header after the first and the last four lines of the file.
\* Each gets 4 * eventsSeenSoFar added to its first field; no header line
\* and no other line is changed by the correction.
C13_LastFourOfEveryRay ==
    (rsd.pc = "done" /\ CorrectionOn(rsd.out, rsd.ctl) /\ FullBodies) =>
        /\ Len(rsd.all_lines) = Len(RsdInput)
        /\ \A i \in DOMAIN rsd.fs : \A p \in DOMAIN rsd.fs[i] :
             LET l == rsd.fs[i][p]
                 o == rsd.all_lines[RsdOffset(i) + p]
             IN  IF p \in RsdHeaders(i) THEN HeaderKept(l, o, i, p)
                 ELSE IF BeforeLaterHeader(i, p) \/ AtEndOfFile(i, p)
                 THEN o.f = Corrected(l, i)
                 ELSE o = l

C13_Witness ==
    /\ rsd.pc = "done"
    /\ CorrectionOn(rsd.out, rsd.ctl)
    /\ FullBodies
    /\ Len(rsd.fs) = 2
    /\ Len(rsd.fs[1]) = CorrLines + 2
    /\ Len(rsd.fs[2]) = 2 * (CorrLines + 2)
    /\ rsd.all_lines[CorrLines + 4] = BodyLine(1, 1, 1)
    /\ rsd.all_lines[CorrLines + 5].f[1] = 2 + CorrLines
    /\ rsd.all_lines[3 * (CorrLines + 2)].f[1] = 2 * CorrLines + 1

\* the event id the merge wrote into the header at line p of the i-th file
RsdGlobalEv(i, p) == rsd.all_lines[RsdOffset(i) + p].f[2]

\* C14: within one input file of combine_ray_sep_data, headers of the same
\* local event id are rewritten to the same global event id and headers of
\* different local event ids to different ones, also when the headers of one
\* event are not adjacent.
C14_OneGlobalIdPerLocalEvent ==
    rsd.pc = "done" =>
        \A i \in DOMAIN rsd.fs : \A p, q \in RsdHeaders(i) :
            (rsd.fs[i][p].f[2] = rsd.fs[i][q].f[2]) <=> (RsdGlobalEv(i, p) = RsdGlobalEv(i, q))

(***************************************************************************)
(* The merges of one run (lines 511-516): combine_arrivals, then           *)
(* combine_ray_sep_data, then combine_arrtimes, over the result files of   *)
(* the same subfolders.  The rays of a subfolder are known by the local id *)
(* of their event; arrivals.dat has a row per ray, the ray separated file  *)
(* a header per ray, arrtimes.dat a header and a value line per event.     *)
(***************************************************************************)
\* the ray separated merge followed: frechet.dat without source inversion, or rays.dat
MergeCalls ==
    {c \in RsdCalls : c.out = "rays.dat" \/ c.ctl = [invert3d |-> "0", refcols |-> 3]}

\* the file kind, if any, that holds no record of the event of local id ev
Drops ==
    {[kind |-> "none", ev |-> 0]}
        \cup {[kind |-> Outputs[k], ev |-> e] : k \in DOMAIN Outputs, e \in 1..MaxLocalId}

\* the rays of a subfolder that have a record in the files of a kind
RaysIn(rays, kind, drop) ==
    LET Recorded(e) == ~(drop.kind = kind /\ drop.ev = e)
    IN  SelectSeq(rays, Recorded)

\* the events of the rays, each once, in the order in which they first appear
FirstSeen(rays) ==
    LET first == Indices([j \in DOMAIN rays |-> \A q \in 1..(j - 1) : rays[q] # rays[j]], 1)
    IN  [q \in 1..Len(first) |-> rays[first[q]]]

\* a per-event header and a line of one value for every event
EventLines(evs) == Flatten([q \in 1..Len(evs) |-> <<evs[q], 0>>])

InitMerges ==
    /\ \E n \in 1..MaxHeaders, N \in 1..MaxFiles, call \in MergeCalls, drop \in Drops :
         \E evs \in [1..n -> 1..MaxLocalId], c \in Cuts(n, N) :
             LET rays == Pieces(evs, c, N)
             IN  /\ arr = [pc |-> "read",
                           fs |-> [k \in 1..N |->
                                     ArrFile(k - 1, RaysIn(rays[k], "arrivals.dat", drop))],
                           f |-> 0, counter |-> 1, dfs |-> <<>>, out |-> <<>>]
                 /\ rsd = [pc |-> "read", out |-> call.out, min_n |-> call.min_n,
                           ctl |-> call.ctl,
                           fs |-> [k \in 1..N |->
                                     RayFile(k - 1, RaysIn(rays[k], call.out, drop), 1)],
                           f |-> 0, ray_idx |-> 1, counter |-> 0, n_evs_prev |-> 0,
                           all_lines |-> <<>>]
                 /\ att = [pc |-> "read",
                           fs |-> [k \in 1..N |->
                                     ArtFile(k - 1,
                                         EventLines(FirstSeen(RaysIn(rays[k], "arrtimes.dat", drop))))],
                           f |-> 0, ev_counter |-> 0, all_lines |-> <<>>]
    /\ RunIdle /\ LslIdle

\* a merge is called when the merge before it has returned
NextMerges ==
    \/ ArrReadFile
    \/ ArrWrite
    \/ arr.pc = "done" /\ RsdReadFile
    \/ arr.pc = "done" /\ RsdWrite
    \/ rsd.pc = "done" /\ AttReadFile
    \/ rsd.pc = "done" /\ AttWrite

SpecMerges == InitMerges /\ [][NextMerges]_vars

\* the global ids that the rows of local id l of the i-th arrivals.dat carry
ArrGlobalIds(i, l) ==
    {arr.out[j].src : j \in {r \in DOMAIN arr.out :
        arr.out[r].data[1] = i - 1 /\ arr.fs[i][arr.out[r].data[2]].src = l}}

\* the global ids that the headers of local id l of the i-th ray separated file carry
RsdGlobalIds(i, l) ==
    {RsdGlobalEv(i, p) : p \in {h \in RsdHeaders(i) : rsd.fs[i][h].f[2] = l}}

\* where the lines below the header block of the i-th arrtimes.dat start in the output
AttOffset(i) ==
    HeaderBlock + SeqSum([k \in 1..(i - 1) |-> Len(att.fs[k]) - HeaderBlock])

\* the global ids that the per-event headers of local id l of the i-th arrtimes.dat carry
AttGlobalIds(i, l) ==
    {att.all_lines[AttOffset(i) + p - HeaderBlock].f[1] :
        p \in {h \in (HeaderBlock + 1)..Len(att.fs[i]) :
                 Len(att.fs[i][h].f) > 1 /\ att.fs[i][h].f[1] = l}}

\* C15: the three merges of one run number the events alike: the records of
\* the event of local id l of subfolder i carry one and the same global id in
\* the merged arrivals.dat, in the merged ray separated file and in the merged
\* arrtimes.dat, for any order of the local ids in the files and also when an
\* event has no record in the files of one kind.
C15_MergesNumberEventsAlike ==
    att.pc = "done" =>
        \A i \in DOMAIN arr.fs : \A l \in 1..MaxLocalId :
            Cardinality(ArrGlobalIds(i, l) \cup RsdGlobalIds(i, l) \cup AttGlobalIds(i, l)) <= 1

====
